---- MODULE Spec2Model ----
(***************************************************************************)
(* Model of Predictive-Maintenance-Data-Preparation.ipynb: the notebook    *)
(* reads the turbofan run logs and the label file, derives the RUL column  *)
(* with prepare_data and exports the enriched table.                       *)
(*                                                                         *)
(* A table (vaex DataFrame) is a record [columns, rows]: columns is the    *)
(* ordered list of column names, rows the ordered list of rows, each row a *)
(* function from the column names to cells.  A cell is <<v>> (the value v) *)
(* or <<>> (a missing / masked value).                                     *)
(*                                                                         *)
(* The train pass (lines 83, 154, 300) and the test pass (lines 86, 89-91, *)
(* 155, 301) of the notebook share no data: a behaviour of the model       *)
(* follows one of the two passes, chosen by the first read.                *)
(***************************************************************************)
EXTENDS Integers, Sequences, FiniteSets

VARIABLES pc, variant, run_file, rul_file, data, y_test, df, hdf5, err

vars == <<pc, variant, run_file, rul_file, data, y_test, df, hdf5, err>>

----------------------------------------------------------------------------
(* Bounds of the enumerated inputs *)

MaxRows == 2
MaxCycle == 2
MaxRemaining == 1

(* Program constants *)

VRangeStart == 1
VRangeStop == 101

----------------------------------------------------------------------------
(* Cells and tables *)

NA == <<>>
Some(v) == <<v>>
IsNA(c) == c = NA

Range(s) == {s[i] : i \in DOMAIN s}

NoTable == [columns |-> <<>>, rows |-> <<>>]

column_names ==
    <<"unit_number", "time_in_cycles", "setting_1", "setting_2", "setting_3",
      "T2", "T24", "T30", "T50", "P2", "P15", "P30", "Nf", "Nc", "epr", "Ps30",
      "phi", "NRf", "NRc", "BPR", "farB", "htBleed", "Nf_dmd", "PCNfR_dmd",
      "W31", "W32">>

label_names == <<"remaining_cycles">>

----------------------------------------------------------------------------
(* The files on disk that the model enumerates *)

\* the unit numbers of the run rows: two units inside the label range and
\* one just past it
Units == {1, 2, VRangeStop}
Cycles == 1..MaxCycle
RemainingValues == -1..MaxRemaining

\* the 24 setting and sensor fields of a row; one reading per row
Reading(u, t) == 500 + 10 * t + (u % 10)

RunLine(u, t) ==
    [k \in 1..Len(column_names) |->
        IF k = 1 THEN u ELSE IF k = 2 THEN t ELSE Reading(u, t)]

RunLines == {RunLine(u, t) : u \in Units, t \in Cycles}

RunFiles == UNION {[1..n -> RunLines] : n \in 1..MaxRows}

\* a line that has lost its last field
ShortLine(u, t) == SubSeq(RunLine(u, t), 1, Len(column_names) - 1)

\* run files with a line of the wrong number of fields: the short line alone,
\* or after a full line of the same unit
MalformedFiles ==
    {<<ShortLine(u, t)>> : u \in Units, t \in Cycles}
    \cup {<<RunLine(u, t), ShortLine(u, t)>> : u \in Units, t \in Cycles}

\* a label file of n lines: a on the first line, b on all the others
LabelFile(n, a, b) == [i \in 1..n |-> <<IF i = 1 THEN a ELSE b>>]

\* every combination of values in a file of the length the notebook expects,
\* and one file that is a line short
LabelFiles ==
    {LabelFile(VRangeStop - VRangeStart, a, b) :
        a \in RemainingValues, b \in RemainingValues}
    \cup {LabelFile(VRangeStop - VRangeStart - 1, 0, 0)}

----------------------------------------------------------------------------
(* vaex / pandas operations used by the notebook *)

IndexOf(names, c) == CHOOSE i \in DOMAIN names : names[i] = c

\* read_csv(..., names=names): field k of a line goes to column names[k];
\* a line with fewer fields leaves the remaining columns missing
read_csv(file, names) ==
    [columns |-> names,
     rows |-> [i \in DOMAIN file |->
                 [c \in Range(names) |->
                    IF IndexOf(names, c) <= Len(file[i])
                    THEN Some(file[i][IndexOf(names, c)])
                    ELSE NA]]]

\* faulty variant of vrange: the range counted from 0 whatever its start
vrange_from_zero(start, stop) == [i \in 1..(stop - start) |-> i - 1]

\* vaex.vrange(start, stop): start, start+1, ..., stop-1
vrange(start, stop) == [i \in 1..(stop - start) |-> start + i - 1]

\* df[name] = column: a new column appended after the others
add_column(t, name, column) ==
    [columns |-> Append(t.columns, name),
     rows |-> [i \in DOMAIN t.rows |->
                 [c \in Range(t.columns) \cup {name} |->
                    IF c = name THEN column[i] ELSE t.rows[i][c]]]]

\* df.copy()
copy(t) == t

\* faulty variant of agg_count: the count of the whole table instead of the group
agg_count_all(t, key, k, expression) ==
    Cardinality({i \in DOMAIN t.rows : ~IsNA(t.rows[i][expression])})

\* vaex.agg.count(expression): the rows of the group whose value is not missing
agg_count(t, key, k, expression) ==
    Cardinality({i \in DOMAIN t.rows :
                   t.rows[i][key] = k /\ ~IsNA(t.rows[i][expression])})

RECURSIVE Distinct(_)
\* the values of a sequence in order of first appearance
Distinct(s) ==
    IF s = <<>> THEN <<>>
    ELSE LET front == Distinct(SubSeq(s, 1, Len(s) - 1))
             last == s[Len(s)]
         IN IF last \in Range(front) THEN front ELSE Append(front, last)

\* df.groupby(key).agg({name: vaex.agg.count(expression)})
groupby_count(t, key, name, expression) ==
    LET keys == Distinct([i \in DOMAIN t.rows |-> t.rows[i][key]])
    IN [columns |-> <<key, name>>,
        rows |-> [j \in DOMAIN keys |->
                    [c \in {key, name} |->
                       IF c = key THEN keys[j]
                       ELSE Some(agg_count(t, key, keys[j], expression))]]]

\* the columns a join adds to the left table: those of the right table
\* except the join key
joined_columns(right, on) == SelectSeq(right.columns, LAMBDA c : c # on)

\* faulty variant of lookup: the right row at the position the key names,
\* not the right row with that key
lookup_by_position(right, on, k, c) ==
    IF ~IsNA(k) /\ k[1] \in DOMAIN right.rows THEN right.rows[k[1]][c] ELSE NA

\* the cell a left join gives a left row for column c of the right table:
\* the value of the right row with the same key, missing when there is none
lookup(right, on, k, c) ==
    IF \E j \in DOMAIN right.rows : right.rows[j][on] = k
    THEN right.rows[CHOOSE j \in DOMAIN right.rows : right.rows[j][on] = k][c]
    ELSE NA

\* faulty variant of join_left: an inner join, which drops the left rows without a match
join_inner(left, right, on) ==
    LET kept == SelectSeq(left.rows,
                    LAMBDA r : \E j \in DOMAIN right.rows : right.rows[j][on] = r[on])
    IN [columns |-> left.columns \o joined_columns(right, on),
        rows |-> [i \in DOMAIN kept |->
                    [c \in Range(left.columns) \cup Range(joined_columns(right, on)) |->
                       IF c \in Range(left.columns) THEN kept[i][c]
                       ELSE lookup(right, on, kept[i][on], c)]]]

\* faulty variant of join_left: an outer join, which adds a row for every right row
\* without a match
join_outer(left, right, on) ==
    LET all == Range(left.columns) \cup Range(joined_columns(right, on))
        unmatched == SelectSeq(right.rows,
                        LAMBDA r : \A i \in DOMAIN left.rows : left.rows[i][on] # r[on])
    IN [columns |-> left.columns \o joined_columns(right, on),
        rows |-> [i \in 1..(Len(left.rows) + Len(unmatched)) |->
                    [c \in all |->
                       IF i <= Len(left.rows)
                       THEN IF c \in Range(left.columns) THEN left.rows[i][c]
                            ELSE lookup(right, on, left.rows[i][on], c)
                       ELSE IF c \in DOMAIN unmatched[i - Len(left.rows)]
                            THEN unmatched[i - Len(left.rows)][c]
                            ELSE NA]]]

\* faulty variant of join_left: a sort-merge join, which returns the left rows
\* in the order of the key
join_sorted(left, right, on) ==
    LET n == Len(left.rows)
        key(i) == left.rows[i][on][1]
        order == CHOOSE q \in [1..n -> 1..n] :
                     \A i, j \in 1..n :
                         i < j => \/ key(q[i]) < key(q[j])
                                  \/ key(q[i]) = key(q[j]) /\ q[i] < q[j]
    IN [columns |-> left.columns \o joined_columns(right, on),
        rows |-> [i \in 1..n |->
                    [c \in Range(left.columns) \cup Range(joined_columns(right, on)) |->
                       IF c \in Range(left.columns) THEN left.rows[order[i]][c]
                       ELSE lookup(right, on, left.rows[order[i]][on], c)]]]

\* left.join(right, on=on, how='left'); the keys of right are distinct
join_left(left, right, on) ==
    [columns |-> left.columns \o joined_columns(right, on),
     rows |-> [i \in DOMAIN left.rows |->
                 [c \in Range(left.columns) \cup Range(joined_columns(right, on)) |->
                    IF c \in Range(left.columns) THEN left.rows[i][c]
                    ELSE lookup(right, on, left.rows[i][on], c)]]]

\* faulty variant of sub: the operands the wrong way round
sub_swapped(a, b) == IF IsNA(a) \/ IsNA(b) THEN NA ELSE Some(b[1] - a[1])

\* arithmetic on columns: a missing operand gives a missing result
add(a, b) == IF IsNA(a) \/ IsNA(b) THEN NA ELSE Some(a[1] + b[1])
sub(a, b) == IF IsNA(a) \/ IsNA(b) THEN NA ELSE Some(a[1] - b[1])

\* faulty variant of drop: only max_cycles is ever dropped
drop_max_cycles_only(t, names) ==
    [columns |-> SelectSeq(t.columns, LAMBDA c : c \notin names \cap {"max_cycles"}),
     rows |-> [i \in DOMAIN t.rows |->
                 [c \in Range(t.columns) \ (names \cap {"max_cycles"}) |-> t.rows[i][c]]]]

\* df.drop(columns=names)
drop(t, names) ==
    [columns |-> SelectSeq(t.columns, LAMBDA c : c \notin names),
     rows |-> [i \in DOMAIN t.rows |->
                 [c \in Range(t.columns) \ names |-> t.rows[i][c]]]]

----------------------------------------------------------------------------
(* prepare_data(data, y=None); y is <<>> for None and <<table>> otherwise *)

None == <<>>

\* lines 118-122: the copy with max_cycles joined on
with_max_cycles(d) ==
    LET copied == copy(d)
        g == groupby_count(copied, "unit_number", "max_cycles", "time_in_cycles")
    IN join_left(copied, g, "unit_number")

\* faulty variant of train_rul: the last cycle counted as one remaining cycle
train_rul_one_based(t) ==
    [i \in DOMAIN t.rows |->
        add(sub(t.rows[i]["max_cycles"], t.rows[i]["time_in_cycles"]), Some(1))]

\* faulty variant of train_rul: the cycles elapsed past the count, not the cycles left
train_rul_elapsed(t) ==
    [i \in DOMAIN t.rows |-> sub(t.rows[i]["time_in_cycles"], t.rows[i]["max_cycles"])]

\* line 127: RUL of the train variant
train_rul(t) ==
    [i \in DOMAIN t.rows |-> sub(t.rows[i]["max_cycles"], t.rows[i]["time_in_cycles"])]

\* faulty variant of test_rul: the remaining cycles of the label left out
test_rul_unlabelled(t) ==
    [i \in DOMAIN t.rows |->
        IF IsNA(t.rows[i]["remaining_cycles"]) THEN NA
        ELSE sub(t.rows[i]["max_cycles"], t.rows[i]["time_in_cycles"])]

\* line 134: RUL of the test variant
test_rul(t) ==
    [i \in DOMAIN t.rows |->
        sub(add(t.rows[i]["max_cycles"], t.rows[i]["remaining_cycles"]),
            t.rows[i]["time_in_cycles"])]

\* The frame of a call of prepare_data: the caller's tables data and y, the
\* local df, and shared: whether df names the caller's data table itself
\* rather than a table of its own.
call(d, y) == [data |-> d, y |-> y, df |-> NoTable, shared |-> FALSE]

\* faulty variant of local_df: no copy, and max_cycles joined onto the
\* caller's table in place
local_df_in_place(f) ==
    [f EXCEPT !.df = with_max_cycles(f.data),
              !.data = with_max_cycles(f.data),
              !.shared = TRUE]

\* lines 118-122: df is a copy of data, then the table the join returns
local_df(f) ==
    [f EXCEPT !.df = with_max_cycles(f.data), !.shared = FALSE]

\* lines 127, 134: df[name] = column writes into the table df names
set_column(f, name, column) ==
    [f EXCEPT !.df = add_column(f.df, name, column),
              !.data = IF f.shared THEN add_column(f.data, name, column)
                       ELSE f.data]

\* line 132: df = df.join(y, ...) returns a new table and only reads y
join_labels(f) ==
    [f EXCEPT !.df = join_left(f.df, f.y[1], "unit_number"), !.shared = FALSE]

\* lines 129, 136: df = df.drop(columns=...) returns a new table
drop_columns(f, names) ==
    [f EXCEPT !.df = drop(f.df, names), !.shared = FALSE]

\* the frame when prepare_data returns df
prepare_data_frame(d, y) ==
    LET joined == local_df(call(d, y))
    IN IF y = None
       THEN drop_columns(set_column(joined, "RUL", train_rul(joined.df)),
                         {"max_cycles"})
       ELSE LET labelled == join_labels(joined)
            IN drop_columns(set_column(labelled, "RUL", test_rul(labelled.df)),
                            {"remaining_cycles", "max_cycles"})

prepare_data(d, y) == prepare_data_frame(d, y).df

----------------------------------------------------------------------------
(* The notebook *)

Init ==
    /\ pc = "start"
    /\ variant = "none"
    /\ run_file = <<>>
    /\ rul_file = <<>>
    /\ data = NoTable
    /\ y_test = NoTable
    /\ df = NoTable
    /\ hdf5 = NoTable
    /\ err = "none"

\* line 83: train_data = vaex.read_csv("./data/train_FD001.txt", ...)
ReadTrain ==
    /\ pc = "start"
    /\ \E f \in RunFiles \cup MalformedFiles :
         /\ run_file' = f
         /\ data' = read_csv(f, column_names)
    /\ variant' = "train"
    /\ pc' = "loaded"
    /\ UNCHANGED <<rul_file, y_test, df, hdf5, err>>

\* line 86: test_data = vaex.read_csv("./data/test_FD001.txt", ...)
ReadTest ==
    /\ pc = "start"
    /\ \E f \in RunFiles \cup MalformedFiles :
         /\ run_file' = f
         /\ data' = read_csv(f, column_names)
    /\ variant' = "test"
    /\ pc' = "read_labels"
    /\ UNCHANGED <<rul_file, y_test, df, hdf5, err>>

\* line 89: y_test = vaex.read_csv('./data/RUL_FD001.txt', names=['remaining_cycles'])
ReadLabels ==
    /\ pc = "read_labels"
    /\ \E f \in LabelFiles :
         /\ rul_file' = f
         /\ y_test' = read_csv(f, label_names)
    /\ pc' = "assign_unit"
    /\ UNCHANGED <<variant, run_file, data, df, hdf5, err>>

\* lines 90-91: y_test['unit_number'] = vaex.vrange(1, 101), then astype('int');
\* a column whose length differs from the table's is refused with ValueError
AssignUnitNumber ==
    /\ pc = "assign_unit"
    /\ LET column == vrange(VRangeStart, VRangeStop)
       IN IF Len(column) = Len(y_test.rows)
          THEN /\ y_test' = add_column(y_test, "unit_number",
                                       [i \in DOMAIN column |-> Some(column[i])])
               /\ pc' = "loaded"
               /\ err' = err
          ELSE /\ y_test' = y_test
               /\ pc' = "error"
               /\ err' = "ValueError"
    /\ UNCHANGED <<variant, run_file, rul_file, data, df, hdf5>>

\* line 154: df_train = prepare_data(train_data)
PrepareTrain ==
    /\ pc = "loaded"
    /\ variant = "train"
    /\ LET returned == prepare_data_frame(data, None)
       IN /\ df' = returned.df
          /\ data' = returned.data
    /\ pc' = "prepared"
    /\ UNCHANGED <<variant, run_file, rul_file, y_test, hdf5, err>>

\* line 155: df_test = prepare_data(test_data, y=y_test)
PrepareTest ==
    /\ pc = "loaded"
    /\ variant = "test"
    /\ LET returned == prepare_data_frame(data, <<y_test>>)
       IN /\ df' = returned.df
          /\ data' = returned.data
          /\ y_test' = returned.y[1]
    /\ pc' = "prepared"
    /\ UNCHANGED <<variant, run_file, rul_file, hdf5, err>>

\* lines 300-301: df_train.export_hdf5(...), df_test.export_hdf5(...)
ExportHdf5 ==
    /\ pc = "prepared"
    /\ hdf5' = df
    /\ pc' = "exported"
    /\ UNCHANGED <<variant, run_file, rul_file, data, y_test, df, err>>

Next ==
    \/ ReadTrain
    \/ ReadTest
    \/ ReadLabels
    \/ AssignUnitNumber
    \/ PrepareTrain
    \/ PrepareTest
    \/ ExportHdf5

Spec == Init /\ [][Next]_vars

----------------------------------------------------------------------------
(* Vocabulary of the properties *)

\* prepare_data has returned in the pass of variant v
Returned(v) == variant = v /\ pc \in {"prepared", "exported"}

InputRows == DOMAIN data.rows
UnitAt(i) == data.rows[i]["unit_number"][1]
CycleAt(i) == data.rows[i]["time_in_cycles"][1]
InputUnits == {UnitAt(i) : i \in InputRows}

\* the input run records of unit u, and how many there are
RecordsOf(u) == {i \in InputRows : UnitAt(i) = u}
MaxCyclesOf(u) == Cardinality(RecordsOf(u))
LastCycleOf(u) == CHOOSE t \in {CycleAt(i) : i \in RecordsOf(u)} :
                      \A i \in RecordsOf(u) : CycleAt(i) <= t

RULAt(i) == df.rows[i]["RUL"]

\* the label record of unit u in y_test, once unit_number is assigned
LabelRowsOf(u) ==
    {j \in DOMAIN y_test.rows : y_test.rows[j]["unit_number"] = Some(u)}
Labelled(u) == LabelRowsOf(u) # {}
RemainingOf(u) ==
    y_test.rows[CHOOSE j \in LabelRowsOf(u) : TRUE]["remaining_cycles"][1]

\* within unit u the cycles run 1..n, one record per cycle
Contiguous(u) == {CycleAt(i) : i \in RecordsOf(u)} = 1..MaxCyclesOf(u)
WellFormed ==
    /\ \A u \in InputUnits : Contiguous(u)
    /\ variant = "test" =>
         \A u \in InputUnits : Labelled(u) /\ RemainingOf(u) >= 0

----------------------------------------------------------------------------
(* Properties *)

\* C1: in the train variant the output record at the position of each input
\* record r has RUL = (number of input records of r's unit) - r.time_in_cycles.
C1_TrainRUL ==
    Returned("train") =>
        \A i \in InputRows :
            /\ i \in DOMAIN df.rows
            /\ RULAt(i) = Some(MaxCyclesOf(UnitAt(i)) - CycleAt(i))

\* one unit with cycles 1..2 has been given the RUL values [1, 0]
C1_Witness ==
    /\ Returned("train")
    /\ Len(data.rows) = 2
    /\ UnitAt(1) = UnitAt(2) /\ CycleAt(1) = 1 /\ CycleAt(2) = 2
    /\ RULAt(1) = Some(1) /\ RULAt(2) = Some(0)

\* C2: in the test variant every record whose unit has a label record has
\* RUL = (number of input records of the unit) + remaining_cycles of the
\* unit's label - time_in_cycles.
C2_TestRUL ==
    Returned("test") =>
        \A i \in InputRows :
            Labelled(UnitAt(i)) =>
                /\ i \in DOMAIN df.rows
                /\ RULAt(i) = Some(MaxCyclesOf(UnitAt(i))
                                   + RemainingOf(UnitAt(i)) - CycleAt(i))

\* a labelled unit with two records and one remaining cycle: RUL 2 at cycle 1
C2_Witness ==
    /\ Returned("test")
    /\ \E i \in InputRows :
         /\ Labelled(UnitAt(i))
         /\ MaxCyclesOf(UnitAt(i)) = 2 /\ RemainingOf(UnitAt(i)) = 1
         /\ CycleAt(i) = 1
         /\ RULAt(i) = Some(2)

\* C3: in the test variant a run record whose unit has no label record makes
\* prepare_data fail: it never returns, and no returned record carries a
\* missing RUL.
C3_MissingLabelSurfaced ==
    Returned("test") =>
        \A i \in InputRows :
            /\ Labelled(UnitAt(i))
            /\ i \in DOMAIN df.rows => ~IsNA(RULAt(i))

\* C4 as stated: in the train variant the record of every unit with the
\* largest time_in_cycles has RUL = 0.
C4_LastRecordZero ==
    Returned("train") =>
        \A u \in InputUnits :
            \A i \in RecordsOf(u) :
                CycleAt(i) = LastCycleOf(u) => RULAt(i) = Some(0)

\* C4 amended: in the train variant, for every unit whose largest
\* time_in_cycles equals the number of its records, the record with the
\* largest time_in_cycles has RUL = 0.
C4_LastRecordZeroWhenCounted ==
    Returned("train") =>
        \A u \in InputUnits :
            LastCycleOf(u) = MaxCyclesOf(u) =>
                \A i \in RecordsOf(u) :
                    CycleAt(i) = LastCycleOf(u) => RULAt(i) = Some(0)

\* two units, each with one record at cycle 1 that is its last: both RUL 0
C4_Witness ==
    /\ Returned("train")
    /\ Cardinality(InputUnits) = 2
    /\ \A u \in InputUnits : LastCycleOf(u) = MaxCyclesOf(u)
    /\ \A i \in InputRows : RULAt(i) = Some(0)

\* C5: in both variants prepare_data returns as many records as it was given.
C5_RowCount ==
    (Returned("train") \/ Returned("test")) => Len(df.rows) = Len(data.rows)

\* a test table of two records, one of a unit without a label, came back
\* with two records
C5_Witness ==
    /\ Returned("test")
    /\ Len(data.rows) = 2
    /\ \E i \in InputRows : ~Labelled(UnitAt(i))
    /\ \E i \in InputRows : Labelled(UnitAt(i))
    /\ Len(df.rows) = 2

\* C6: in both variants the returned columns are the input columns plus RUL
\* and nothing else: no max_cycles, no remaining_cycles, no second unit_number.
C6_Columns ==
    (Returned("train") \/ Returned("test")) =>
        /\ df.columns = Append(data.columns, "RUL")
        /\ "RUL" \notin Range(data.columns)
        /\ \A i \in DOMAIN df.rows :
               DOMAIN df.rows[i] = Range(data.columns) \cup {"RUL"}

\* the test variant returned a table of 27 columns whose last is RUL
C6_Witness ==
    /\ Returned("test")
    /\ Len(df.columns) = Len(column_names) + 1
    /\ df.columns[Len(df.columns)] = "RUL"
    /\ \E i \in InputRows : Labelled(UnitAt(i))

\* C7: for well-formed inputs (cycles 1..n once each within every unit; in the
\* test variant every unit labelled with remaining_cycles >= 0) every returned
\* RUL is a non-negative integer, in both variants.
C7_NonNegative ==
    ((Returned("train") \/ Returned("test")) /\ WellFormed) =>
        \A i \in DOMAIN df.rows :
            /\ ~IsNA(RULAt(i))
            /\ RULAt(i)[1] \in Nat

\* a well-formed test table whose last record reaches RUL 0
C7_Witness ==
    /\ Returned("test")
    /\ WellFormed
    /\ Len(data.rows) = 2
    /\ \E i \in InputRows : RULAt(i) = Some(0)
    /\ \E i \in InputRows : RULAt(i) = Some(1)

\* C8: in the train variant, two returned records of one unit whose
\* time_in_cycles are t and t+1 have RULs r and r-1.
C8_DecreasesByOne ==
    Returned("train") =>
        \A i, j \in InputRows :
            (UnitAt(i) = UnitAt(j) /\ CycleAt(j) = CycleAt(i) + 1) =>
                (~IsNA(RULAt(i)) /\ RULAt(j) = Some(RULAt(i)[1] - 1))

\* cycle 2 of a unit stored before its cycle 1: RUL 0 before RUL 1
C8_Witness ==
    /\ Returned("train")
    /\ Len(data.rows) = 2
    /\ UnitAt(1) = UnitAt(2) /\ CycleAt(1) = 2 /\ CycleAt(2) = 1
    /\ RULAt(1) = Some(0) /\ RULAt(2) = Some(1)

\* the label table has been built, or its construction has failed
LabelsDone == variant = "test" /\ pc \notin {"start", "read_labels", "assign_unit"}

\* row i of y_test is line i of the label file keyed by unit_number i
KeyedByRowIndex ==
    /\ Len(y_test.rows) = Len(rul_file)
    /\ y_test.columns = <<"remaining_cycles", "unit_number">>
    /\ \A i \in DOMAIN rul_file :
           y_test.rows[i] = [remaining_cycles |-> Some(rul_file[i][1]),
                             unit_number |-> Some(i)]

UnusedLabelUnits ==
    {y_test.rows[j]["unit_number"][1] : j \in DOMAIN y_test.rows} \ InputUnits

\* C10: in the test variant a label record whose unit matches no run record
\* is ignored: prepare_data returns without error and no returned record
\* carries that unit_number.
C10_UnusedLabelIgnored ==
    Returned("test") =>
        /\ err = "none"
        /\ \A i \in DOMAIN df.rows :
               /\ ~IsNA(df.rows[i]["unit_number"])
               /\ df.rows[i]["unit_number"][1] \in InputUnits
               /\ df.rows[i]["unit_number"][1] \notin UnusedLabelUnits

\* label row 3 has remaining_cycles 1 and no run record of unit 3 exists;
\* the run records of units 1 and 2 were returned
C10_Witness ==
    /\ Returned("test")
    /\ err = "none"
    /\ 3 \in UnusedLabelUnits
    /\ y_test.rows[3]["remaining_cycles"] = Some(1)
    /\ InputUnits = {1, 2}
    /\ Len(df.rows) = 2

\* C11: a call of prepare_data leaves its arguments as they were: the run
\* table, and the label table when given, keep their records, columns and
\* values, and gain no max_cycles, remaining_cycles or RUL column.
C11_ArgumentsUnchanged ==
    [][pc = "loaded" =>
         /\ data' = data
         /\ y_test' = y_test
         /\ Range(data'.columns) \cap {"max_cycles", "remaining_cycles", "RUL"} = {}
         /\ Range(y_test'.columns) \cap {"max_cycles", "RUL"} = {}]_vars

\* the test call has returned a table with RUL while test_data still has the
\* 26 columns read and y_test its two
C11_Witness ==
    /\ Returned("test")
    /\ "RUL" \in Range(df.columns)
    /\ data = read_csv(run_file, column_names)
    /\ y_test.columns = <<"remaining_cycles", "unit_number">>
    /\ Len(data.rows) = 2

\* C12: in both variants the i-th returned record is the i-th input record:
\* the order is kept and every original column has the input's value.
C12_OrderAndColumnsKept ==
    (Returned("train") \/ Returned("test")) =>
        /\ DOMAIN df.rows = InputRows
        /\ \A i \in InputRows :
               \A c \in Range(data.columns) :
                   c \in DOMAIN df.rows[i] /\ df.rows[i][c] = data.rows[i][c]

\* a test table that stores unit 2 before unit 1 came back in that order,
\* with the readings of each record
C12_Witness ==
    /\ Returned("test")
    /\ Len(data.rows) = 2
    /\ UnitAt(1) = 2 /\ UnitAt(2) = 1
    /\ df.rows[1]["unit_number"] = Some(2) /\ df.rows[2]["unit_number"] = Some(1)
    /\ df.rows[1]["W32"] = Some(Reading(2, CycleAt(1)))
    /\ df.rows[2]["T2"] = Some(Reading(1, CycleAt(2)))

\* a line of the run file has the wrong number of fields
Malformed(file) == \E i \in DOMAIN file : Len(file[i]) # Len(column_names)

\* C13: a run file holding a line with the wrong number of fields fails the
\* read step with an error; the pass never goes on to prepare_data or the
\* export with a padded table.
C13_MalformedReadFails ==
    Malformed(run_file) =>
        /\ pc = "error"
        /\ err # "none"
        /\ \A i \in DOMAIN hdf5.rows : \A c \in DOMAIN hdf5.rows[i] :
               ~IsNA(hdf5.rows[i][c])

\* C14: in the test variant, for every labelled unit whose cycles run
\* contiguously from 1, the record with the largest time_in_cycles has
\* RUL = remaining_cycles of the unit, and every record of the unit has
\* RUL >= remaining_cycles.
C14_LastRecordRemaining ==
    Returned("test") =>
        \A u \in InputUnits :
            (Labelled(u) /\ Contiguous(u)) =>
                \A i \in RecordsOf(u) :
                    /\ ~IsNA(RULAt(i))
                    /\ RULAt(i)[1] >= RemainingOf(u)
                    /\ CycleAt(i) = LastCycleOf(u) => RULAt(i) = Some(RemainingOf(u))

\* unit 2 with cycles 1..2 and remaining_cycles 1 has the RUL values [2, 1]
C14_Witness ==
    /\ Returned("test")
    /\ Len(data.rows) = 2
    /\ UnitAt(1) = 2 /\ UnitAt(2) = 2 /\ CycleAt(1) = 1 /\ CycleAt(2) = 2
    /\ RemainingOf(2) = 1
    /\ RULAt(1) = Some(2) /\ RULAt(2) = Some(1)

\* the positions of the records of unit u, in order, and the table of those
\* records alone
PositionsOf(u) ==
    SelectSeq([i \in 1..Len(data.rows) |-> i], LAMBDA i : UnitAt(i) = u)
SubTableOf(u) ==
    [columns |-> data.columns,
     rows |-> [k \in DOMAIN PositionsOf(u) |-> data.rows[PositionsOf(u)[k]]]]

\* the label argument of the variant's call
LabelArgument == IF variant = "test" THEN <<y_test>> ELSE None

\* C15: in both variants prepare_data run on the records of one unit alone
\* gives each of them the RUL that the run on the whole table gave it: the
\* records of the other units do not matter.
C15_PerUnit ==
    (Returned("train") \/ Returned("test")) =>
        \A u \in InputUnits :
            LET alone == prepare_data(SubTableOf(u), LabelArgument)
            IN /\ Len(alone.rows) = Len(PositionsOf(u))
               /\ \A k \in DOMAIN PositionsOf(u) :
                      alone.rows[k]["RUL"] = RULAt(PositionsOf(u)[k])

\* a test table with one record of unit 1 and one of unit 2: each has, in
\* the whole table and alone, the RUL 1 + remaining_cycles - 1
C15_Witness ==
    /\ Returned("test")
    /\ InputUnits = {1, 2}
    /\ RemainingOf(1) = 1 /\ RemainingOf(2) = 0
    /\ \A i \in InputRows : CycleAt(i) = 1
    /\ \A i \in InputRows : RULAt(i) = Some(RemainingOf(UnitAt(i)))
    /\ prepare_data(SubTableOf(1), LabelArgument).rows[1]["RUL"] = Some(1)

====
